---------------------------- MODULE Spec2Model ----------------------------
(***************************************************************************)
(* A model of scripts/validate.py: the Home Assistant blueprint validator  *)
(* (BlueprintValidator), its batch runner validate_all, and the command    *)
(* line entry point main.                                                  *)
(*                                                                         *)
(* Python values are tagged records, Python str values are sequences of    *)
(* one-character strings, and a Python exception that leaves a function is *)
(* the field exc of the collector record the rule operators thread.        *)
(*                                                                         *)
(* Environment assumptions: yaml.safe_load is the YAML parser (external);  *)
(* every document of the catalog pairs a raw text with the tree PyYAML     *)
(* builds from it.  The tool is run from a directory above blueprints/, so *)
(* Path.relative_to(Path.cwd()) (line 139) succeeds.                       *)
(***************************************************************************)
EXTENDS Integers, Sequences, FiniteSets, TLC

-----------------------------------------------------------------------------
(* Python str values: sequences of characters *)

W_blueprint   == <<"b","l","u","e","p","r","i","n","t">>
W_trigger     == <<"t","r","i","g","g","e","r">>
W_action      == <<"a","c","t","i","o","n">>
W_condition   == <<"c","o","n","d","i","t","i","o","n">>
W_name        == <<"n","a","m","e">>
W_description == <<"d","e","s","c","r","i","p","t","i","o","n">>
W_domain      == <<"d","o","m","a","i","n">>
W_input       == <<"i","n","p","u","t">>
W_platform    == <<"p","l","a","t","f","o","r","m">>
W_selector    == <<"s","e","l","e","c","t","o","r">>
W_default     == <<"d","e","f","a","u","l","t">>
W_mode        == <<"m","o","d","e">>
W_automation  == <<"a","u","t","o","m","a","t","i","o","n">>
W_script      == <<"s","c","r","i","p","t">>
W_choose      == <<"c","h","o","o","s","e">>
W_state       == <<"s","t","a","t","e">>
W_single      == <<"s","i","n","g","l","e">>
W_service     == <<"s","e","r","v","i","c","e">>

NL  == "\n"
TAB == "\t"

(* str.isspace() characters that str.strip() removes *)
Whitespace == {" ", "\t", "\n", "\r"}

RECURSIVE Spaces(_)
Spaces(n) == IF n = 0 THEN <<>> ELSE <<" ">> \o Spaces(n - 1)

(* s.startswith(p) *)
StartsWith(s, p) ==
    /\ Len(p) <= Len(s)
    /\ \A k \in 1..Len(p) : s[k] = p[k]

(* s.endswith(p) *)
EndsWith(s, p) ==
    /\ Len(p) <= Len(s)
    /\ \A k \in 1..Len(p) : s[Len(s) - Len(p) + k] = p[k]

(* p occurs in s at 1-based position i *)
OccursAt(s, p, i) ==
    /\ i >= 1
    /\ i + Len(p) - 1 <= Len(s)
    /\ \A k \in 1..Len(p) : s[i + k - 1] = p[k]

(* p in s, for str *)
Contains(s, p) == \E i \in 1..(Len(s) + 1) : OccursAt(s, p, i)

(* s.lstrip() *)
RECURSIVE LStrip(_)
LStrip(s) ==
    IF s # <<>> /\ Head(s) \in Whitespace THEN LStrip(Tail(s)) ELSE s

(* s.rstrip() *)
RECURSIVE RStrip(_)
RStrip(s) ==
    IF s # <<>> /\ s[Len(s)] \in Whitespace
    THEN RStrip(SubSeq(s, 1, Len(s) - 1))
    ELSE s

(* s.strip() *)
Strip(s) == RStrip(LStrip(s))

(* content.split('\n'): the list of lines, never empty.  Line m lies between
   the (m-1)-th and the m-th newline of s *)
Split(s) ==
    LET IsNewline(k) == s[k] = NL
        nls == SelectSeq([k \in 1..Len(s) |-> k], IsNewline)
    IN  [ m \in 1..(Len(nls) + 1) |->
            SubSeq(s,
                   IF m = 1 THEN 1 ELSE nls[m - 1] + 1,
                   IF m = Len(nls) + 1 THEN Len(s) ELSE nls[m] - 1) ]

(* '\n'.join(lines): how the catalog writes a file's text *)
RECURSIVE JoinRange(_, _, _)
JoinRange(ls, a, b) ==
    IF a > b THEN <<>>
    ELSE IF a = b THEN ls[a]
    ELSE JoinRange(ls, a, (a + b) \div 2) \o <<NL>> \o JoinRange(ls, (a + b) \div 2 + 1, b)

JoinLines(ls) == JoinRange(ls, 1, Len(ls))

-----------------------------------------------------------------------------
(* Python values, as yaml.safe_load builds them *)

PyNone    == [t |-> "none", s |-> <<>>, n |-> 0, items |-> <<>>]
PyStr(x)  == [t |-> "str",  s |-> x,    n |-> 0, items |-> <<>>]
PyInt(k)  == [t |-> "int",  s |-> <<>>, n |-> k, items |-> <<>>]
(* a list: items are its elements *)
PyList(xs) == [t |-> "list", s |-> <<>>, n |-> 0, items |-> xs]
(* a dict: items are its <<key, value>> pairs in insertion order; keys are str *)
PyDict(kvs) == [t |-> "dict", s |-> <<>>, n |-> 0, items |-> kvs]

IsDict(v) == v.t = "dict"
IsList(v) == v.t = "list"
IsStr(v)  == v.t = "str"

(* bool(v): None, 0, '', [] and {} are falsy *)
Truthy(v) ==
    CASE v.t = "none" -> FALSE
      [] v.t = "int"  -> v.n # 0
      [] v.t = "str"  -> v.s # <<>>
      [] OTHER        -> v.items # <<>>

(* v == 'w' for a str literal w *)
EqStr(v, w) == v.t = "str" /\ v.s = w

(* 'w' in v raises TypeError unless v is a dict, a list or a str *)
InRaises(v) == v.t \notin {"dict", "list", "str"}

(* 'w' in v: key of a dict, element of a list, substring of a str *)
In(w, v) ==
    CASE v.t = "dict" -> \E i \in 1..Len(v.items) : v.items[i][1] = w
      [] v.t = "list" -> \E i \in 1..Len(v.items) : EqStr(v.items[i], w)
      [] v.t = "str"  -> Contains(v.s, w)
      [] OTHER        -> FALSE

(* v['w'] raises TypeError unless v is a dict (a KeyError is never reached:
   every subscript of the program is guarded by 'w' in v) *)
GetItemRaises(v) == v.t # "dict"

(* v['w'] of a dict that has the key *)
GetItem(v, w) == v.items[CHOOSE i \in 1..Len(v.items) : v.items[i][1] = w][2]

-----------------------------------------------------------------------------
(* Diagnostics and the collector *)

(* ValidationError(file, message, line): the message is its kind plus the
   values the f-string interpolates (key, c1, c2); line 0 is None *)
ValidationError(file, kind, key, line, c1, c2) ==
    [file |-> file, kind |-> kind, key |-> key, line |-> line, c1 |-> c1, c2 |-> c2]

(* the lists of a validator, with the exception that is propagating, if any *)
Collector(errs, warns) == [errors |-> errs, warnings |-> warns, exc |-> "none"]

add_error(c, file, kind, key, line) ==
    [c EXCEPT !.errors = Append(@, ValidationError(file, kind, key, line, 0, 0))]

add_warning(c, file, kind, key, line, c1, c2) ==
    [c EXCEPT !.warnings = Append(@, ValidationError(file, kind, key, line, c1, c2))]

Raise(c, e) == [c EXCEPT !.exc = e]

REQUIRED_BLUEPRINT_KEYS == <<W_blueprint, W_trigger, W_action>>
REQUIRED_BLUEPRINT_META == <<W_name, W_description, W_domain>>
VALID_DOMAINS == <<W_automation, W_script>>
reserved_keywords == <<W_blueprint, W_trigger, W_condition, W_action>>

SeqHas(seq, x) == \E i \in 1..Len(seq) : seq[i] = x

(* for key in keys: if key not in v: add_error(...), from the i-th key on *)
RECURSIVE MissingKeys(_, _, _, _, _, _)
MissingKeys(c, file, keys, v, kind, i) ==
    IF i > Len(keys) THEN c
    ELSE MissingKeys(IF In(keys[i], v) THEN c ELSE add_error(c, file, kind, keys[i], 0),
                     file, keys, v, kind, i + 1)

(* validate_structure with the last required key left out of the loop *)
validate_structure_short(c, file, blueprint) ==
    IF ~Truthy(blueprint) \/ ~IsDict(blueprint)
    THEN add_error(c, file, "not_a_yaml_object", <<>>, 0)
    ELSE MissingKeys(c, file, SubSeq(REQUIRED_BLUEPRINT_KEYS, 1, Len(REQUIRED_BLUEPRINT_KEYS) - 1),
                     blueprint, "missing_top_level_key", 1)

(* validate_structure without the return of line 182 *)
validate_structure_noreturn(c, file, blueprint) ==
    MissingKeys(IF ~Truthy(blueprint) \/ ~IsDict(blueprint)
                THEN add_error(c, file, "not_a_yaml_object", <<>>, 0)
                ELSE c,
                file, REQUIRED_BLUEPRINT_KEYS, blueprint, "missing_top_level_key", 1)

validate_structure(c, file, blueprint) ==
    IF ~Truthy(blueprint) \/ ~IsDict(blueprint)
    THEN add_error(c, file, "not_a_yaml_object", <<>>, 0)
    ELSE MissingKeys(c, file, REQUIRED_BLUEPRINT_KEYS, blueprint, "missing_top_level_key", 1)

(* lines 194-199 *)
MetaDomain(c, file, meta) ==
    IF ~In(W_domain, meta) THEN c
    ELSE IF GetItemRaises(meta) THEN Raise(c, "TypeError")
    ELSE IF \E k \in 1..Len(VALID_DOMAINS) : EqStr(GetItem(meta, W_domain), VALID_DOMAINS[k])
         THEN c
         ELSE add_error(c, file, "invalid_domain", GetItem(meta, W_domain).s, 0)

DESCRIPTION_MIN == 10

(* lines 201-203 *)
MetaDescription(c, file, meta) ==
    IF c.exc # "none" \/ ~In(W_description, meta) THEN c
    ELSE IF GetItemRaises(meta) THEN Raise(c, "TypeError")
    ELSE IF /\ IsStr(GetItem(meta, W_description))
            /\ Len(GetItem(meta, W_description).s) < DESCRIPTION_MIN
         THEN add_warning(c, file, "short_description", <<>>, 0, 0, 0)
         ELSE c

validate_metadata(c, file, meta) ==
    IF InRaises(meta) THEN Raise(c, "TypeError")
    ELSE MetaDescription(
             MetaDomain(MissingKeys(c, file, REQUIRED_BLUEPRINT_META, meta,
                                    "missing_metadata", 1),
                        file, meta),
             file, meta)

(* the body of the for loop of validate_inputs for one (input_name, input_def) *)
InputsBody(c, file, input_name, input_def) ==
    IF ~IsDict(input_def) THEN c
    ELSE LET c1 == IF In(W_name, input_def) THEN c
                   ELSE add_warning(c, file, "input_missing_name", input_name, 0, 0, 0)
             c2 == IF In(W_selector, input_def) THEN c1
                   ELSE add_warning(c1, file, "input_missing_selector", input_name, 0, 0, 0)
         IN  IF SeqHas(reserved_keywords, input_name)
             THEN add_error(c2, file, "reserved_keyword", input_name, 0)
             ELSE c2

RECURSIVE InputsLoop(_, _, _, _)
InputsLoop(c, file, kvs, i) ==
    IF i > Len(kvs) THEN c
    ELSE InputsLoop(InputsBody(c, file, kvs[i][1], kvs[i][2]), file, kvs, i + 1)

validate_inputs(c, file, inputs) ==
    IF ~IsDict(inputs) THEN add_error(c, file, "inputs_not_object", <<>>, 0)
    ELSE InputsLoop(c, file, inputs.items, 1)

RECURSIVE TriggersLoop(_, _, _, _)
TriggersLoop(c, file, xs, i) ==
    IF i > Len(xs) THEN c
    ELSE TriggersLoop(IF IsDict(xs[i]) /\ ~In(W_platform, xs[i])
                      THEN add_error(c, file, "trigger_missing_platform", <<>>, 0)
                      ELSE c,
                      file, xs, i + 1)

validate_triggers(c, file, triggers) ==
    IF ~IsList(triggers) THEN add_error(c, file, "triggers_not_array", <<>>, 0)
    ELSE IF Len(triggers.items) = 0
         THEN add_warning(c, file, "no_triggers", <<>>, 0, 0, 0)
         ELSE TriggersLoop(c, file, triggers.items, 1)

validate_actions(c, file, actions) ==
    IF ~IsList(actions) THEN add_error(c, file, "actions_not_array", <<>>, 0)
    ELSE IF Len(actions.items) = 0
         THEN add_warning(c, file, "no_actions", <<>>, 0, 0, 0)
         ELSE c

-----------------------------------------------------------------------------
(* check_common_mistakes: the heuristics over the raw text *)

T_default_colon == W_default \o <<":">>
T_choose_colon  == W_choose \o <<":">>
T_dash_choose   == <<"-", " ">> \o W_choose \o <<":">>
T_open          == <<"{", "{">>
T_close         == <<"}", "}">>
T_cond_input    == <<" ", " ", "-", " ">> \o W_condition \o <<":", " ", "!">> \o W_input
BLOCK_SUFFIXES  == << <<">">>, <<"|">>, <<">", "-">>, <<"|", "-">>, <<">", "+">>, <<"|", "+">> >>

LOOKBACK == 50

Max(a, b) == IF a >= b THEN a ELSE b

(* len(line) - len(line.lstrip()) *)
IndentOf(line) == Len(line) - Len(LStrip(line))

(* '- choose:' in prev_line.strip() or prev_line.strip() == 'choose:' *)
IsChooseLine(line) ==
    Contains(Strip(line), T_dash_choose) \/ Strip(line) = T_choose_colon

(* the values of j in range(i - 1, max(0, i - 50), -1): 0-based line indices,
   the stop value itself excluded *)
ScanRange(i) == { j \in 0..(i - 1) : j > Max(0, i - LOOKBACK) }

(* the first j of the backward scan whose line is a choose line, or -1 when
   the loop ends without a break *)
NearestChoose(lines, i) ==
    LET hits == { j \in ScanRange(i) : IsChooseLine(lines[j + 1]) }
    IN  IF hits = {} THEN -1 ELSE CHOOSE j \in hits : \A k \in hits : k <= j

(* choose_indent if prev_line.strip().startswith('-') else choose_indent + 2 *)
ExpectedDefaultIndent(prev_line) ==
    IF StartsWith(Strip(prev_line), <<"-">>)
    THEN IndentOf(prev_line)
    ELSE IndentOf(prev_line) + 2

(* lines 262-279, for the line at 0-based index i *)
CheckDefault(c, file, lines, i) ==
    IF ~StartsWith(Strip(lines[i + 1]), T_default_colon) THEN c
    ELSE LET j == NearestChoose(lines, i)
         IN  IF j = -1 THEN c
             ELSE IF IndentOf(lines[i + 1]) # ExpectedDefaultIndent(lines[j + 1])
                  THEN add_warning(c, file, "default_indentation", <<>>, i + 1,
                                   IndentOf(lines[i + 1]), IndentOf(lines[j + 1]))
                  ELSE c

(* '{{' in line and '}}' not in line, and no block scalar indicator at the end *)
IsUnclosedTemplate(line) ==
    /\ Contains(line, T_open)
    /\ ~Contains(line, T_close)
    /\ ~\E k \in 1..Len(BLOCK_SUFFIXES) : EndsWith(Strip(line), BLOCK_SUFFIXES[k])

(* lines 281-286 *)
CheckTemplate(c, file, lines, i) ==
    IF IsUnclosedTemplate(lines[i + 1])
    THEN add_warning(c, file, "unclosed_template", <<>>, i + 1, 0, 0)
    ELSE c

(* lines 288-290 *)
CheckConditionInput(c, file, lines, i) ==
    IF Contains(lines[i + 1], T_cond_input)
    THEN add_warning(c, file, "condition_input", <<>>, i + 1, 0, 0)
    ELSE c

(* the warnings one iteration of the for loop appends: the body of the loop
   for the line at index i, lines 260-290 *)
LineWarnings(file, lines, i) ==
    CheckConditionInput(
        CheckTemplate(CheckDefault(Collector(<<>>, <<>>), file, lines, i), file, lines, i),
        file, lines, i).warnings

(* the warnings the iterations a..b of the loop append, in order (no iteration
   reads what another appended, so the order of evaluation is free) *)
RECURSIVE LoopWarnings(_, _, _, _)
LoopWarnings(file, lines, a, b) ==
    IF a > b THEN <<>>
    ELSE IF a = b THEN LineWarnings(file, lines, a)
    ELSE LoopWarnings(file, lines, a, (a + b) \div 2)
         \o LoopWarnings(file, lines, (a + b) \div 2 + 1, b)

(* for i, line in enumerate(lines), lines 259-290 *)
LinesLoop(c, file, lines) ==
    [c EXCEPT !.warnings = @ \o LoopWarnings(file, lines, 0, Len(lines) - 1)]

(* lines 253-290 *)
CheckText(c, file, content) ==
    LinesLoop(IF \E k \in 1..Len(content) : content[k] = TAB
              THEN add_warning(c, file, "tabs", <<>>, 0, 0, 0)
              ELSE c,
              file, Split(content))

(* check_common_mistakes: the checks over the parsed tree *)

(* [name for name, def_ in inputs.items() if isinstance(def_, dict) and
   'default' not in def_] *)
RECURSIVE inputs_without_defaults(_, _)
inputs_without_defaults(kvs, i) ==
    IF i > Len(kvs) THEN <<>>
    ELSE (IF IsDict(kvs[i][2]) /\ ~In(W_default, kvs[i][2]) THEN <<kvs[i][1]>> ELSE <<>>)
         \o inputs_without_defaults(kvs, i + 1)

PREVIEW_MAX == 3

(* ', '.join(names) *)
RECURSIVE JoinComma(_)
JoinComma(names) ==
    IF names = <<>> THEN <<>>
    ELSE IF Len(names) = 1 THEN names[1]
    ELSE names[1] \o <<",", " ">> \o JoinComma(Tail(names))

(* ', '.join(names[:3]), plus '...' when there are more than 3 *)
Preview(names) ==
    JoinComma(SubSeq(names, 1, IF Len(names) < PREVIEW_MAX THEN Len(names) ELSE PREVIEW_MAX))
    \o (IF Len(names) > PREVIEW_MAX THEN <<".", ".", ".">> ELSE <<>>)

(* blueprint.get('blueprint', {}) *)
MetaOrEmpty(blueprint) ==
    IF In(W_blueprint, blueprint) THEN GetItem(blueprint, W_blueprint) ELSE PyDict(<<>>)

(* lines 294-296, blueprint a non-empty dict *)
CheckMode(c, file, blueprint) ==
    IF ~IsDict(MetaOrEmpty(blueprint)) THEN Raise(c, "AttributeError")
    ELSE IF /\ In(W_domain, MetaOrEmpty(blueprint))
            /\ EqStr(GetItem(MetaOrEmpty(blueprint), W_domain), W_automation)
            /\ ~In(W_mode, blueprint)
         THEN add_warning(c, file, "mode_not_set", <<>>, 0, 0, 0)
         ELSE c

(* lines 298-312, blueprint a non-empty dict *)
CheckDefaults(c, file, blueprint) ==
    IF c.exc # "none" \/ ~In(W_blueprint, blueprint) THEN c
    ELSE IF InRaises(GetItem(blueprint, W_blueprint)) THEN Raise(c, "TypeError")
    ELSE IF ~In(W_input, GetItem(blueprint, W_blueprint)) THEN c
    ELSE IF GetItemRaises(GetItem(blueprint, W_blueprint)) THEN Raise(c, "TypeError")
    ELSE IF ~IsDict(GetItem(GetItem(blueprint, W_blueprint), W_input))
         THEN Raise(c, "AttributeError")
    ELSE LET names == inputs_without_defaults(
                          GetItem(GetItem(blueprint, W_blueprint), W_input).items, 1)
         IN  IF names = <<>> THEN c
             ELSE add_warning(c, file, "inputs_without_defaults", Preview(names),
                              0, Len(names), 0)

(* lines 292-312 *)
CheckTree(c, file, blueprint) ==
    IF Truthy(blueprint) /\ IsDict(blueprint)
    THEN CheckDefaults(CheckMode(c, file, blueprint), file, blueprint)
    ELSE c

check_common_mistakes(c, file, blueprint, content) ==
    CheckTree(CheckText(c, file, content), file, blueprint)

-----------------------------------------------------------------------------
(* validate_blueprint *)

(* A file of the blueprints directory: status is how reading and parsing it
   ends ("ok", "yaml_error": yaml.YAMLError, "io_error": any other exception
   of open/read/safe_load); errline is problem_mark.line + 1 of a YAMLError
   (0: no mark); tree is what yaml.safe_load returns; content is the text *)
File(status, errline, tree, content) ==
    [status |-> status, errline |-> errline, tree |-> tree, content |-> content]

(* Step 3, lines 160-161 *)
StepMetadata(c, file, blueprint) ==
    IF c.exc # "none" \/ ~Truthy(blueprint) THEN c
    ELSE IF InRaises(blueprint) THEN Raise(c, "TypeError")
    ELSE IF ~In(W_blueprint, blueprint) THEN c
    ELSE IF GetItemRaises(blueprint) THEN Raise(c, "TypeError")
    ELSE validate_metadata(c, file, GetItem(blueprint, W_blueprint))

(* Step 4, lines 164-165 *)
StepInputs(c, file, blueprint) ==
    IF c.exc # "none" \/ ~Truthy(blueprint) THEN c
    ELSE IF InRaises(blueprint) THEN Raise(c, "TypeError")
    ELSE IF ~In(W_blueprint, blueprint) THEN c
    ELSE IF GetItemRaises(blueprint) THEN Raise(c, "TypeError")
    ELSE IF InRaises(GetItem(blueprint, W_blueprint)) THEN Raise(c, "TypeError")
    ELSE IF ~In(W_input, GetItem(blueprint, W_blueprint)) THEN c
    ELSE IF GetItemRaises(GetItem(blueprint, W_blueprint)) THEN Raise(c, "TypeError")
    ELSE validate_inputs(c, file, GetItem(GetItem(blueprint, W_blueprint), W_input))

(* Step 5, lines 168-169 *)
StepTriggers(c, file, blueprint) ==
    IF c.exc # "none" \/ ~Truthy(blueprint) THEN c
    ELSE IF InRaises(blueprint) THEN Raise(c, "TypeError")
    ELSE IF ~In(W_trigger, blueprint) THEN c
    ELSE IF GetItemRaises(blueprint) THEN Raise(c, "TypeError")
    ELSE validate_triggers(c, file, GetItem(blueprint, W_trigger))

(* Step 6, lines 172-173 *)
StepActions(c, file, blueprint) ==
    IF c.exc # "none" \/ ~Truthy(blueprint) THEN c
    ELSE IF InRaises(blueprint) THEN Raise(c, "TypeError")
    ELSE IF ~In(W_action, blueprint) THEN c
    ELSE IF GetItemRaises(blueprint) THEN Raise(c, "TypeError")
    ELSE validate_actions(c, file, GetItem(blueprint, W_action))

(* Step 7, line 176 *)
StepMistakes(c, file, blueprint, content) ==
    IF c.exc # "none" THEN c
    ELSE check_common_mistakes(c, file, blueprint, content)

(* validate_blueprint(file_path): c is the validator's lists before the
   call; the result holds them after it, with exc the exception that leaves
   the call ("none": it returns) *)
validate_blueprint(c, file, f) ==
    IF f.status = "yaml_error"
    THEN add_error(c, file, "yaml_syntax_error", <<>>, f.errline)
    ELSE IF f.status = "io_error"
    THEN add_error(c, file, "read_or_parse_failed", <<>>, 0)
    ELSE StepMistakes(
             StepActions(
                 StepTriggers(
                     StepInputs(
                         StepMetadata(validate_structure(c, file, f.tree), file, f.tree),
                         file, f.tree),
                     file, f.tree),
                 file, f.tree),
             file, f.tree, f.content)

-----------------------------------------------------------------------------
(* The files the validator is run on.  A file is named by a selector, a tuple
   of numbers <<family, ...>>; FileOf gives its status, text and parsed tree.
   The text of a generated file is the JSON form of its tree (JSON is YAML,
   so yaml.safe_load of that text is that tree); the hand-written files are
   block-style YAML. *)

Digits == <<"0", "1", "2", "3", "4", "5", "6", "7", "8", "9">>
DQ == "\""

(* the JSON text of a tree: what yaml.safe_load reads back as the tree *)
RECURSIVE Dump(_)
RECURSIVE DumpElems(_, _)
RECURSIVE DumpPairs(_, _)
Dump(v) ==
    CASE v.t = "none" -> <<"n", "u", "l", "l">>
      [] v.t = "int"  -> <<Digits[v.n + 1]>>
      [] v.t = "str"  -> <<DQ>> \o v.s \o <<DQ>>
      [] v.t = "list" -> <<"[">> \o DumpElems(v.items, 1) \o <<"]">>
      [] v.t = "dict" -> <<"{">> \o DumpPairs(v.items, 1) \o <<"}">>
DumpElems(xs, i) ==
    IF i > Len(xs) THEN <<>>
    ELSE (IF i > 1 THEN <<",", " ">> ELSE <<>>) \o Dump(xs[i]) \o DumpElems(xs, i + 1)
DumpPairs(kvs, i) ==
    IF i > Len(kvs) THEN <<>>
    ELSE (IF i > 1 THEN <<",", " ">> ELSE <<>>)
         \o <<DQ>> \o kvs[i][1] \o <<DQ, ":", " ">> \o Dump(kvs[i][2])
         \o DumpPairs(kvs, i + 1)

(* a file that parses to tree v, written as JSON *)
Parsed(v) == File("ok", 0, v, Dump(v))

W_x == <<"x">>
W_long_description == <<"A", " ", "l", "o", "n", "g", " ", "t", "e", "x", "t">>
W_short == <<"s", "h", "o", "r", "t">>
W_unclosed == <<"{", "{", " ", "f", "o", "o">>
W_closed == <<"{", "{", " ", "f", "o", "o", " ", "}", "}">>
W_tabbed == <<"a", TAB, "b">>

GoodTriggers == PyList(<< PyDict(<< <<W_platform, PyStr(W_state)>> >>) >>)
GoodActions  == PyList(<< PyDict(<< <<W_service, PyStr(W_x)>> >>) >>)

(* blueprint metadata with the given domain and input values *)
Meta(domain, inputs) ==
    PyDict(<< <<W_name, PyStr(W_x)>>,
              <<W_description, PyStr(W_long_description)>>,
              <<W_domain, domain>>,
              <<W_input, inputs>> >>)

GoodMeta == Meta(PyStr(W_automation), PyDict(<<>>))

(* a root mapping with the given blueprint, trigger and action values, and mode *)
Root(meta, triggers, actions) ==
    PyDict(<< <<W_blueprint, meta>>, <<W_trigger, triggers>>,
              <<W_action, actions>>, <<W_mode, PyStr(W_single)>> >>)

(* family 2: a root mapping holding the subset of the keys blueprint, trigger,
   action, mode that the bits of mask select; mask 0 is the empty mapping *)
TopKeyPairs ==
    << <<W_blueprint, GoodMeta>>, <<W_trigger, GoodTriggers>>,
       <<W_action, GoodActions>>, <<W_mode, PyStr(W_single)>> >>

Bit(mask, k) == (mask \div (2 ^ (k - 1))) % 2 = 1

RECURSIVE PickPairs(_, _, _)
PickPairs(kvs, mask, k) ==
    IF k > Len(kvs) THEN <<>>
    ELSE (IF Bit(mask, k) THEN <<kvs[k]>> ELSE <<>>) \o PickPairs(kvs, mask, k + 1)

TopKeysFile(mask) == Parsed(PyDict(PickPairs(TopKeyPairs, mask, 1)))

(* family 3: blueprint.input is a mapping of inputs, each a name and the shape
   of its definition *)
InputNames == <<W_blueprint, W_trigger, W_condition, W_action, W_x>>

FullInput ==
    PyDict(<< <<W_name, PyStr(W_x)>>, <<W_selector, PyDict(<<>>)>>,
              <<W_default, PyInt(1)>> >>)

InputShapes ==
    << FullInput,                                   \* a complete mapping
       PyDict(<<>>),                                \* an empty mapping
       PyInt(5),                                    \* a scalar
       PyNone,                                      \* null
       PyList(<<>>) >>                              \* a sequence

(* sel = <<3, name1, shape1, name2, shape2, ...>> *)
RECURSIVE InputPairs(_, _)
InputPairs(sel, k) ==
    IF k + 1 > Len(sel) THEN <<>>
    ELSE << <<InputNames[sel[k]], InputShapes[sel[k + 1]]>> >> \o InputPairs(sel, k + 2)

InputsFile(sel) ==
    Parsed(Root(Meta(PyStr(W_script), PyDict(InputPairs(sel, 2))),
                GoodTriggers, GoodActions))

(* family 4: the root is a list of these elements *)
ListElems ==
    << PyStr(W_x), PyStr(W_blueprint), PyStr(W_trigger), PyStr(W_action),
       PyStr(W_unclosed), PyStr(W_tabbed), PyInt(1), PyStr(W_closed) >>

RECURSIVE ElemsOf(_, _)
ElemsOf(sel, k) ==
    IF k > Len(sel) THEN <<>> ELSE <<ListElems[sel[k]]>> \o ElemsOf(sel, k + 1)

ListFile(sel) == Parsed(PyList(ElemsOf(sel, 2)))

(* family 5: the value of the blueprint key *)
MetaShapes ==
    << PyNone,                                         \* blueprint:
       PyList(<<>>),                                   \* blueprint: []
       PyList(<<PyStr(W_domain)>>),                    \* blueprint: [domain]
       PyList(<<PyStr(W_input)>>),                     \* blueprint: [input]
       PyList(<<PyStr(W_description)>>),               \* blueprint: [description]
       PyStr(W_x),                                     \* blueprint: x
       PyStr(W_domain),                                \* blueprint: domain
       PyInt(5),                                       \* blueprint: 5
       PyDict(<<>>),                                   \* blueprint: {}
       Meta(PyStr(W_x), PyDict(<<>>)),                 \* an invalid domain
       Meta(PyNone, PyDict(<<>>)),                     \* domain: null
       PyDict(<< <<W_description, PyStr(W_short)>>,    \* a short description
                 <<W_domain, PyStr(W_script)>> >>),
       PyDict(<< <<W_name, PyStr(W_x)>>,               \* description not a str
                 <<W_description, PyInt(5)>>,
                 <<W_domain, PyStr(W_automation)>> >>),
       Meta(PyStr(W_script), PyNone),                  \* input: null
       Meta(PyStr(W_script), PyList(<<>>)),            \* input: []
       Meta(PyStr(W_script), PyStr(W_x)),              \* input: x
       Meta(PyStr(W_automation), PyInt(5)),            \* input: 5
       Meta(PyStr(W_script),                           \* four inputs without default
            PyDict(<< <<W_x, PyDict(<<>>)>>, <<W_name, PyDict(<<>>)>>,
                      <<W_mode, PyDict(<<>>)>>, <<W_domain, PyDict(<<>>)>> >>)),
       GoodMeta >>

MetaFile(k) == Parsed(Root(MetaShapes[k], GoodTriggers, GoodActions))

(* family 6: the values of the trigger and action keys *)
TriggerShapes ==
    << GoodTriggers,
       PyList(<<>>),
       PyDict(<< <<W_platform, PyStr(W_state)>> >>),
       PyList(<< PyDict(<< <<W_x, PyInt(1)>> >>), PyStr(W_x),
                 PyDict(<<>>), PyDict(<< <<W_platform, PyStr(W_state)>> >>) >>),
       PyNone,
       PyStr(W_x) >>

ActionShapes ==
    << GoodActions, PyList(<<>>), PyDict(<< <<W_service, PyStr(W_x)>> >>), PyNone >>

TriggerActionFile(k, j) == Parsed(Root(GoodMeta, TriggerShapes[k], ActionShapes[j]))

(* family 7: a scalar root *)
ScalarRoots == << PyNone, PyStr(W_blueprint), PyStr(W_x), PyInt(7), PyInt(0), PyStr(<<>>) >>

ScalarFile(k) == Parsed(ScalarRoots[k])

(* family 1: hand-written files *)

(* a flow sequence that is never closed: yaml.safe_load raises a YAMLError *)
BadYamlLines ==
    << <<"a", ":", " ", "[">> >>

(* an automation without mode whose action is a choose with a default *)
ChooseLines ==
    << <<"b", "l", "u", "e", "p", "r", "i", "n", "t", ":">>,
       <<" ", " ", "n", "a", "m", "e", ":", " ", "x">>,
       <<" ", " ", "d", "e", "s", "c", "r", "i", "p", "t", "i", "o", "n", ":", " ", "A", " ", "l", "o", "n", "g", " ", "t", "e", "x", "t">>,
       <<" ", " ", "d", "o", "m", "a", "i", "n", ":", " ", "a", "u", "t", "o", "m", "a", "t", "i", "o", "n">>,
       <<"t", "r", "i", "g", "g", "e", "r", ":">>,
       <<" ", " ", "-", " ", "p", "l", "a", "t", "f", "o", "r", "m", ":", " ", "s", "t", "a", "t", "e">>,
       <<"a", "c", "t", "i", "o", "n", ":">>,
       <<" ", " ", "-", " ", "c", "h", "o", "o", "s", "e", ":", " ", "[", "]">>,
       <<" ", " ", " ", " ", "d", "e", "f", "a", "u", "l", "t", ":", " ", "[", "]">> >>

(* a list, with a tab in a comment *)
TabCommentLines ==
    << <<"-", " ", "x", " ", "#", " ", "a", TAB, "b">> >>

(* choose: on the first line of the file, default: on the second *)
FirstLineChooseLines ==
    << <<"c", "h", "o", "o", "s", "e", ":">>,
       <<"d", "e", "f", "a", "u", "l", "t", ":", " ", "1">> >>

ChooseTree ==
    PyDict(<< <<W_blueprint, PyDict(<< <<W_name, PyStr(W_x)>>,
                                       <<W_description, PyStr(W_long_description)>>,
                                       <<W_domain, PyStr(W_automation)>> >>)>>,
              <<W_trigger, GoodTriggers>>,
              <<W_action, PyList(<< PyDict(<< <<W_choose, PyList(<<>>)>>,
                                              <<W_default, PyList(<<>>)>> >>) >>)>> >>)

FirstLineChooseTree == PyDict(<< <<W_choose, PyNone>>, <<W_default, PyInt(1)>> >>)

HandFiles ==
    << File("yaml_error", 1, PyNone, JoinLines(BadYamlLines)),   \* a marked YAMLError
       File("yaml_error", 0, PyNone, <<>>),                       \* a YAMLError without a mark
       File("io_error", 0, PyNone, <<>>),                         \* the file cannot be read or decoded
       File("ok", 0, ChooseTree, JoinLines(ChooseLines)),
       File("ok", 0, PyList(<<PyStr(W_x)>>), JoinLines(TabCommentLines)),
       File("ok", 0, PyNone, <<>>),                               \* an empty file
       File("ok", 0, FirstLineChooseTree, JoinLines(FirstLineChooseLines)) >>

FileOf(sel) ==
    CASE sel[1] = 1 -> HandFiles[sel[2]]
      [] sel[1] = 2 -> TopKeysFile(sel[2])
      [] sel[1] = 3 -> InputsFile(sel)
      [] sel[1] = 4 -> ListFile(sel)
      [] sel[1] = 5 -> MetaFile(sel[2])
      [] sel[1] = 6 -> TriggerActionFile(sel[2], sel[3])
      [] sel[1] = 7 -> ScalarFile(sel[2])

(* bounds of the file families *)
MaxInputs == 2
MaxListLen == 2
MaxFiles == 3
MaxRuns == 2

(* the sequences over 1..n of length 0..k *)
RECURSIVE SeqsUpTo(_, _)
SeqsUpTo(n, k) ==
    IF k = 0 THEN {<<>>}
    ELSE LET shorter == SeqsUpTo(n, k - 1)
         IN  shorter \cup { Append(q, x) : q \in { r \in shorter : Len(r) = k - 1 }, x \in 1..n }

(* <<name1, shape1, name2, shape2, ...>> with distinct names (the keys of a mapping) *)
RECURSIVE InputLists(_)
InputLists(k) ==
    IF k = 0 THEN {<<>>}
    ELSE LET shorter == InputLists(k - 1)
         IN  shorter \cup
             { q \o <<nm, sh>> :
                 q \in { r \in shorter : Len(r) = 2 * (k - 1) },
                 nm \in 1..Len(InputNames), sh \in 1..Len(InputShapes) }

DistinctNames(q) ==
    \A a, b \in 1..(Len(q) \div 2) : a # b => q[2 * a - 1] # q[2 * b - 1]

AllSels ==
    { <<1, k>> : k \in 1..Len(HandFiles) }
    \cup { <<2, m>> : m \in 0..(2 ^ Len(TopKeyPairs) - 1) }
    \cup { <<3>> \o q : q \in { r \in InputLists(MaxInputs) : DistinctNames(r) } }
    \cup { <<4>> \o q : q \in SeqsUpTo(Len(ListElems), MaxListLen) }
    \cup { <<5, k>> : k \in 1..Len(MetaShapes) }
    \cup { <<6, k, j>> : k \in 1..Len(TriggerShapes), j \in 1..Len(ActionShapes) }
    \cup { <<7, k>> : k \in 1..Len(ScalarRoots) }

(* the files that batches of several files are made of: a valid blueprint, one
   with a warning only, a list root with an unclosed template, a YAMLError,
   and a list root that holds 'blueprint' *)
BatchSels == << <<2, 15>>, <<2, 7>>, <<4, 5>>, <<1, 1>>, <<4, 2>> >>

RECURSIVE MapSels(_)
MapSels(q) == IF q = <<>> THEN <<>> ELSE <<BatchSels[Head(q)]>> \o MapSels(Tail(q))

(* the listings of the blueprints directory: one file of any family, or up to
   MaxFiles files of BatchSels *)
Batches ==
    { <<sel>> : sel \in AllSels }
    \cup { MapSels(q) : q \in SeqsUpTo(Len(BatchSels), MaxFiles) }

-----------------------------------------------------------------------------
(* The state *)

VARIABLES
    files,       \* the listing of blueprints/: glob('*.yaml') + glob('*.yml'), as selectors
    dir_exists,  \* blueprints_dir.exists()
    errors,      \* self.errors of the validator
    warnings,    \* self.warnings of the validator
    pc,          \* where the call of validate_all (or of check_common_mistakes) is
    idx,         \* the position in files of the next file of the for loop
    result,      \* what validate_all returned: "none", "true", "false"
    runs,        \* the number of calls of validate_all so far
    fresh,       \* whether the validator was new when this run of validate_all began
    prev,        \* the lists and the outcome at the end of the run before this one
    cur,         \* the position of the file validate_blueprint was last called on
    mark,        \* <<len(errors), len(warnings)>> when that call began
    argv,        \* sys.argv[1:]
    lint,        \* how yamllint ends: "pass", "fail", "notfound"
    mpc,         \* where main is; "api" when the caller is not main
    success,     \* the local success of main
    phases,      \* the phases main has run, in order
    exit_code,   \* the argument of sys.exit, -1 while main runs
    text         \* the selector of the text check_common_mistakes is applied to

vvars == <<files, dir_exists, errors, warnings, pc, idx, result, runs, fresh, prev, cur, mark>>
mvars == <<argv, lint, mpc, success, phases, exit_code>>
vars  == <<vvars, mvars, text>>

NoPrev == [errors |-> <<>>, warnings |-> <<>>, result |-> "none", pc |-> "idle", fresh |-> TRUE]

(* the lists and the outcome of the run that has ended *)
Outcome == [errors |-> errors, warnings |-> warnings, result |-> result, pc |-> pc, fresh |-> fresh]

(* BlueprintValidator(): lines 100-102 *)
InitValidator ==
    /\ errors = <<>>
    /\ warnings = <<>>
    /\ pc = "idle"
    /\ idx = 0
    /\ result = "none"
    /\ runs = 0
    /\ fresh = TRUE
    /\ prev = NoPrev
    /\ cur = 0
    /\ mark = <<0, 0>>

(* a validator object in the hands of a caller other than main *)
Init ==
    /\ InitValidator
    /\ dir_exists \in BOOLEAN
    /\ files \in (IF dir_exists THEN Batches ELSE {<<>>})
    /\ argv = <<>>
    /\ lint = "pass"
    /\ mpc = "api"
    /\ success = TRUE
    /\ phases = <<>>
    /\ exit_code = -1
    /\ text = <<>>

(* BlueprintValidator() with errors and warnings as class attributes, shared
   by all validators: a new validator starts with the lists of the last one *)
NewValidatorShared ==
    /\ mpc = "api"
    /\ pc \in {"returned", "raised"}
    /\ runs < MaxRuns
    /\ pc' = "idle"
    /\ result' = "none"
    /\ prev' = Outcome
    /\ cur' = 0
    /\ mark' = <<Len(errors), Len(warnings)>>
    /\ UNCHANGED <<files, dir_exists, errors, warnings, idx, runs, fresh, mvars, text>>

(* BlueprintValidator() again: the caller makes a new validator for a new run *)
NewValidator ==
    /\ mpc = "api"
    /\ pc \in {"returned", "raised"}
    /\ runs < MaxRuns
    /\ errors' = <<>>
    /\ warnings' = <<>>
    /\ pc' = "idle"
    /\ result' = "none"
    /\ prev' = Outcome
    /\ cur' = 0
    /\ mark' = <<0, 0>>
    /\ UNCHANGED <<files, dir_exists, idx, runs, fresh, mvars, text>>

(* validate_all, lines 112-130: up to the for loop *)
ValidateAllBegin ==
    /\ \/ mpc = "validating" /\ pc = "idle"
       \/ mpc = "api" /\ pc \in {"idle", "returned", "raised"}
    /\ runs < MaxRuns
    /\ runs' = runs + 1
    /\ fresh' = (pc = "idle")
    /\ prev' = IF pc = "idle" THEN prev ELSE Outcome
    /\ cur' = 0
    /\ mark' = <<Len(errors), Len(warnings)>>
    /\ IF ~dir_exists
       THEN /\ errors' = Append(errors, ValidationError(0, "directory_not_found", <<>>, 0, 0, 0))
            /\ result' = "false"
            /\ pc' = "returned"
            /\ idx' = 0
       ELSE IF files = <<>>
       THEN /\ result' = "true"
            /\ pc' = "returned"
            /\ idx' = 0
            /\ UNCHANGED errors
       ELSE /\ result' = "none"
            /\ pc' = "loop"
            /\ idx' = 1
            /\ UNCHANGED errors
    /\ UNCHANGED <<files, dir_exists, warnings, mvars, text>>

(* one iteration of the for loop, lines 132-133: validate_blueprint(file);
   an exception it raises leaves validate_all *)
ValidateBlueprintCall ==
    /\ pc = "loop"
    /\ idx <= Len(files)
    /\ LET c == validate_blueprint(Collector(errors, warnings), idx, FileOf(files[idx]))
       IN  /\ errors' = c.errors
           /\ warnings' = c.warnings
           /\ pc' = IF c.exc = "none" THEN "loop" ELSE "raised"
           /\ idx' = IF c.exc = "none" THEN idx + 1 ELSE idx
    /\ cur' = idx
    /\ mark' = <<Len(errors), Len(warnings)>>
    /\ UNCHANGED <<files, dir_exists, result, runs, fresh, prev, mvars, text>>

(* print_results that returns True only on the [PASS] branch *)
print_results_strict(errs, warns) == errs = <<>> /\ warns = <<>>

(* print_results, lines 314-335: its return value *)
print_results(errs, warns) ==
    IF errs = <<>> /\ warns = <<>> THEN TRUE ELSE Len(errs) = 0

(* the end of validate_all, line 135: return self.print_results() *)
ValidateAllReturn ==
    /\ pc = "loop"
    /\ idx > Len(files)
    /\ result' = IF print_results(errors, warnings) THEN "true" ELSE "false"
    /\ pc' = "returned"
    /\ UNCHANGED <<files, dir_exists, errors, warnings, idx, runs, fresh, prev, cur, mark, mvars, text>>

Next ==
    \/ NewValidator
    \/ ValidateAllBegin
    \/ ValidateBlueprintCall
    \/ ValidateAllReturn

Spec == Init /\ [][Next]_vars

-----------------------------------------------------------------------------
(* check_common_mistakes as a function of (blueprint, content): the texts it
   is applied to.  Family 8 is a choose line and a default: line some lines
   below it; family 9 is a few lines with template delimiters. *)

TemplateLines ==
    << <<"v", ":", " ", DQ, "{", "{", " ", "f", "o", "o", " ", "}", "}", DQ>>,
       <<"v", ":", " ", DQ, "{", "{", " ", "f", "o", "o", DQ>>,
       <<"v", ":", " ", DQ, "}", "}", " ", "{", "{", " ", "f", "o", "o", DQ>>,
       <<"v", ":", " ", DQ, "{", "{", " ", "a", " ", "}", "}", " ", "{", "{", " ", "b", DQ>>,
       <<"v", ":", " ", ">">>,
       <<" ", " ", "{", "{", " ", "f", "o", "o", " ", "|">>,
       <<"v", ":", " ", DQ, "{", "{", " ", "f", "o", "o", " ", "|", "-", " ", " ">>,
       <<"v", ":", " ", "f", "o", "o", " ", "}", "}">>,
       <<"v", ":", " ", "1">>,
       <<"v", ":", " ", "{", "{", " ", "f", "o", "o", " ", ">", " ", "b", "a", "r">>,
       <<" ", " ", "-", " ", "c", "o", "n", "d", "i", "t", "i", "o", "n", ":", " ", "!", "i", "n", "p", "u", "t", " ", "c">>,
       <<"-", " ", "c", "o", "n", "d", "i", "t", "i", "o", "n", ":", " ", "!", "i", "n", "p", "u", "t", " ", "c">>,
       <<"{", "{", " ", "f", "o", "o", " ", ">", "+">>,
       <<"{", " ", "{", " ", "f", "o", "o">> >>

ChooseKinds ==
    << <<"c", "h", "o", "o", "s", "e", ":">>,
       <<"-", " ", "c", "h", "o", "o", "s", "e", ":">>,
       <<"#", " ", "-", " ", "c", "h", "o", "o", "s", "e", ":">>,
       <<"c", "h", "o", "s", "e", "n", ":", " ", "1">> >>

T_filler == <<"x", ":", " ", "1">>

T_default_line == <<"d", "e", "f", "a", "u", "l", "t", ":", " ", "1">>

T_second_choose == <<" ", " ", " ", " ", "c", "h", "o", "o", "s", "e", ":">>

MaxIndent == 2
MaxTextLines == 2

(* the numbers of lines between the choose line and the default: line *)
Gaps == {0, 1, LOOKBACK - 2, LOOKBACK - 1, LOOKBACK}

(* sel = <<8, lead, kind, ci, two, gap, di>>: lead filler lines, a choose line
   of the kind at indentation ci, a second choose: line when two = 1, gap
   filler lines, and default: at indentation di *)
ChooseDefaultLines(sel) ==
    LET lead == sel[2]
        total == sel[2] + 1 + sel[5] + sel[6] + 1
    IN  [ m \in 1..total |->
            IF m <= lead THEN T_filler
            ELSE IF m = lead + 1 THEN Spaces(sel[4]) \o ChooseKinds[sel[3]]
            ELSE IF sel[5] = 1 /\ m = lead + 2 THEN T_second_choose
            ELSE IF m = total THEN Spaces(sel[7]) \o T_default_line
            ELSE T_filler ]

RECURSIVE TemplateLinesOf(_, _)
TemplateLinesOf(sel, k) ==
    IF k > Len(sel) THEN <<>> ELSE <<TemplateLines[sel[k]]>> \o TemplateLinesOf(sel, k + 1)

TextLinesOf(sel) ==
    IF sel[1] = 8 THEN ChooseDefaultLines(sel) ELSE TemplateLinesOf(sel, 2)

TextOf(sel) == JoinLines(TextLinesOf(sel))

TextSels ==
    { <<8, lead, kind, ci, two, gap, di>> :
        lead \in 0..1, kind \in 1..Len(ChooseKinds), ci \in 0..MaxIndent,
        two \in 0..1, gap \in Gaps, di \in 0..(MaxIndent + 2) }
    \cup { <<9>> \o q : q \in SeqsUpTo(Len(TemplateLines), MaxTextLines) \ {<<>>} }

(* the trees check_common_mistakes is given with them: None, an automation
   without mode, and a blueprint whose input is null *)
TextTreeSels == { <<7, 1>>, <<2, 7>>, <<5, 14>> }

InitText ==
    /\ text \in TextSels
    /\ files \in { <<sel>> : sel \in TextTreeSels }
    /\ dir_exists = TRUE
    /\ errors = <<>>
    /\ warnings = <<>>
    /\ pc = "text"
    /\ idx = 1
    /\ result = "none"
    /\ runs = 0
    /\ fresh = TRUE
    /\ prev = NoPrev
    /\ cur = 0
    /\ mark = <<0, 0>>
    /\ argv = <<>>
    /\ lint = "pass"
    /\ mpc = "text"
    /\ success = TRUE
    /\ phases = <<>>
    /\ exit_code = -1

(* check_common_mistakes(file, blueprint, content), lines 251-312 *)
CheckCommonMistakesCall ==
    /\ pc = "text"
    /\ LET c == check_common_mistakes(Collector(errors, warnings), 1,
                                      FileOf(files[1]).tree, TextOf(text))
       IN  /\ errors' = c.errors
           /\ warnings' = c.warnings
           /\ pc' = IF c.exc = "none" THEN "text_done" ELSE "raised"
    /\ cur' = 1
    /\ UNCHANGED <<files, dir_exists, idx, result, runs, fresh, prev, mark, mvars, text>>

NextText == CheckCommonMistakesCall

SpecText == InitText /\ [][NextText]_vars

-----------------------------------------------------------------------------
(* main *)

Argvs ==
    { <<>>, <<"all">>, <<"lint">>, <<"validate">>, <<"help">>, <<"-h">>,
      <<"--help">>, <<"bogus">> }

(* command = sys.argv[1] if len(sys.argv) > 1 else "all" *)
Command(args) == IF Len(args) > 0 THEN args[1] ELSE "all"

(* the files main's batches are made of: a valid blueprint, one with a warning
   only, a list root, and a list root that holds 'blueprint' *)
MainSels == << <<2, 15>>, <<2, 7>>, <<4, 1>>, <<4, 2>> >>

RECURSIVE MapMainSels(_)
MapMainSels(q) == IF q = <<>> THEN <<>> ELSE <<MainSels[Head(q)]>> \o MapMainSels(Tail(q))

InitMain ==
    /\ argv \in Argvs
    /\ lint \in {"pass", "fail", "notfound"}
    /\ dir_exists \in BOOLEAN
    /\ files \in (IF dir_exists
                  THEN { MapMainSels(q) : q \in SeqsUpTo(Len(MainSels), MaxFiles) }
                  ELSE {<<>>})
    /\ mpc = "start"
    /\ success = TRUE
    /\ phases = <<>>
    /\ exit_code = -1
    /\ InitValidator
    /\ pc = "idle"
    /\ text = <<>>

(* lines 354-360: help, or success = True *)
MainStart ==
    /\ mpc = "start"
    /\ IF Command(argv) \in {"help", "-h", "--help"}
       THEN /\ exit_code' = 0
            /\ mpc' = "exited"
       ELSE /\ mpc' = "lint_phase"
            /\ UNCHANGED exit_code
    /\ success' = TRUE
    /\ UNCHANGED <<argv, lint, phases, vvars, text>>

(* run_yamllint, lines 53-77: whether the linter ran and returned 0 *)
run_yamllint(outcome) == outcome = "pass"

(* lines 362-364 *)
MainLint ==
    /\ mpc = "lint_phase"
    /\ IF Command(argv) \in {"all", "lint"}
       THEN /\ phases' = Append(phases, "lint")
            /\ success' = IF ~run_yamllint(lint) THEN FALSE ELSE success
       ELSE UNCHANGED <<phases, success>>
    /\ mpc' = "validate_phase"
    /\ UNCHANGED <<argv, lint, exit_code, vvars, text>>

(* lines 366-368: validator = BlueprintValidator(), and validate_all is called *)
MainValidate ==
    /\ mpc = "validate_phase"
    /\ IF Command(argv) \in {"all", "validate"}
       THEN /\ phases' = Append(phases, "validate")
            /\ mpc' = "validating"
       ELSE /\ mpc' = "tail"
            /\ UNCHANGED phases
    /\ errors' = <<>>
    /\ warnings' = <<>>
    /\ pc' = "idle"
    /\ UNCHANGED <<argv, lint, success, exit_code, files, dir_exists, idx, result,
                   runs, fresh, prev, cur, mark, text>>

(* lines 368-369: validate_all has returned *)
MainValidated ==
    /\ mpc = "validating"
    /\ pc = "returned"
    /\ success' = IF result # "true" THEN FALSE ELSE success
    /\ mpc' = "tail"
    /\ UNCHANGED <<argv, lint, phases, exit_code, vvars, text>>

(* an exception left validate_all: nothing in main catches it, the
   interpreter prints the traceback and the process exits with status 1 *)
MainUncaught ==
    /\ mpc = "validating"
    /\ pc = "raised"
    /\ exit_code' = 1
    /\ mpc' = "exited"
    /\ UNCHANGED <<argv, lint, phases, success, vvars, text>>

(* main without the unknown-command branch of lines 371-374 *)
MainExitNoReject ==
    /\ mpc = "tail"
    /\ exit_code' = IF success THEN 0 ELSE 1
    /\ mpc' = "exited"
    /\ UNCHANGED <<argv, lint, phases, success, vvars, text>>

(* lines 371-384 *)
MainExit ==
    /\ mpc = "tail"
    /\ exit_code' = IF Command(argv) \notin {"all", "lint", "validate"} THEN 1
                    ELSE IF success THEN 0 ELSE 1
    /\ mpc' = "exited"
    /\ UNCHANGED <<argv, lint, phases, success, vvars, text>>

NextMain ==
    \/ MainStart
    \/ MainLint
    \/ MainValidate
    \/ ValidateAllBegin
    \/ ValidateBlueprintCall
    \/ ValidateAllReturn
    \/ MainValidated
    \/ MainUncaught
    \/ MainExit

SpecMain == InitMain /\ [][NextMain]_vars

-----------------------------------------------------------------------------
(* The claims *)

(* the diagnostics the last call of validate_blueprint appended *)
NewErrors   == SubSeq(errors, mark[1] + 1, Len(errors))
NewWarnings == SubSeq(warnings, mark[2] + 1, Len(warnings))

(* the file that call was given *)
CurFile == FileOf(files[cur])

(* validate_blueprint has been called in this run of validate_all *)
Called == mpc = "api" /\ cur # 0

(* how many diagnostics of seq have the kind and the key *)
CountKey(seq, kind, key) ==
    Cardinality({ i \in 1..Len(seq) : seq[i].kind = kind /\ seq[i].key = key })

(* how many warnings of seq have the kind and the line number *)
CountLine(seq, kind, line) ==
    Cardinality({ i \in 1..Len(seq) : seq[i].kind = kind /\ seq[i].line = line })

(* C1: for every document whose content parses as YAML, validate_blueprint
   returns normally: no exception leaves it, so validate_all is never left by
   an exception and goes on to the remaining documents and print_results. *)
C1_NoExceptionLeavesDocument ==
    (Called /\ CurFile.status = "ok") => pc # "raised"

(* C2: a document that cannot be read or parsed gets exactly one error and
   nothing else, and once validate_all is over, validate_blueprint has been
   called on every document after it. *)
C2_ParseFailureSkipsOnlyThatDocument ==
    /\ (Called /\ CurFile.status # "ok") =>
           /\ Len(NewErrors) = 1
           /\ NewErrors[1].kind \in {"yaml_syntax_error", "read_or_parse_failed"}
           /\ NewErrors[1].file = cur
           /\ NewWarnings = <<>>
    /\ (Called /\ pc \in {"returned", "raised"}) =>
           \A k \in 1..Len(files) :
               (k <= cur /\ FileOf(files[k]).status # "ok") =>
                   \A j \in (k + 1)..Len(files) : j <= cur

(* what the code does for C2's first half: the call on an unparsable document
   appends one error, returns, and the loop stands at the next document *)
C2_ParseFailureStep ==
    (Called /\ CurFile.status # "ok") =>
        /\ Len(NewErrors) = 1
        /\ NewWarnings = <<>>
        /\ (pc = "loop" => idx = cur + 1)
        /\ pc # "raised"

(* C3: a call of validate_all on a freshly created validator returns success
   exactly when the error list is empty as it returns, whatever the warnings;
   with no documents at all it returns success. *)
C3_SuccessIffNoErrors ==
    (mpc = "api" /\ runs > 0 /\ fresh /\ pc = "returned") =>
        /\ (result = "true") <=> (errors = <<>>)
        /\ (dir_exists /\ files = <<>>) => result = "true"

(* C3's case: a run on a new validator that ends with warnings, no errors,
   and success *)
C3_Witness ==
    /\ mpc = "api" /\ runs > 0 /\ fresh /\ pc = "returned"
    /\ errors = <<>>
    /\ warnings # <<>>
    /\ result = "true"

(* the inputs mapping of a parsed tree, when blueprint.input is a mapping *)
HasInputsMapping(t) ==
    /\ IsDict(t) /\ In(W_blueprint, t)
    /\ IsDict(GetItem(t, W_blueprint)) /\ In(W_input, GetItem(t, W_blueprint))
    /\ IsDict(GetItem(GetItem(t, W_blueprint), W_input))

InputsOf(t) == GetItem(GetItem(t, W_blueprint), W_input).items

(* C4: when blueprint.input is a mapping, every input named blueprint,
   trigger, condition or action gets exactly one reserved-keyword error,
   whatever the shape of its definition. *)
C4_ReservedNameAlwaysOneError ==
    (Called /\ CurFile.status = "ok" /\ HasInputsMapping(CurFile.tree)) =>
        \A i \in 1..Len(InputsOf(CurFile.tree)) :
            SeqHas(reserved_keywords, InputsOf(CurFile.tree)[i][1]) =>
                CountKey(NewErrors, "reserved_keyword", InputsOf(CurFile.tree)[i][1]) = 1

(* what the code does for C4: the error is appended exactly for the reserved
   names whose definition is a mapping *)
C4_ReservedNameOfMappingOnly ==
    (Called /\ CurFile.status = "ok" /\ HasInputsMapping(CurFile.tree)) =>
        \A i \in 1..Len(InputsOf(CurFile.tree)) :
            CountKey(NewErrors, "reserved_keyword", InputsOf(CurFile.tree)[i][1]) =
                IF /\ SeqHas(reserved_keywords, InputsOf(CurFile.tree)[i][1])
                   /\ IsDict(InputsOf(CurFile.tree)[i][2])
                THEN 1 ELSE 0

(* the parsed document has the top-level key *)
HasTopLevelKey(t, key) == IsDict(t) /\ In(key, t)

(* C5 as stated: for every parsed document, exactly one 'Missing required
   top-level key' error for each of blueprint, trigger, action that the
   document lacks, and none for a key it has. *)
C5_OneErrorPerMissingKey ==
    (Called /\ CurFile.status = "ok") =>
        \A k \in 1..Len(REQUIRED_BLUEPRINT_KEYS) :
            CountKey(NewErrors, "missing_top_level_key", REQUIRED_BLUEPRINT_KEYS[k]) =
                IF HasTopLevelKey(CurFile.tree, REQUIRED_BLUEPRINT_KEYS[k]) THEN 0 ELSE 1

(* C5 amended: for every parsed document whose root is a non-empty mapping,
   exactly one such error for each required key the mapping lacks and none
   for a key it has; for any other root (an empty mapping, a list, a scalar,
   null) none of these errors, only 'Blueprint must be a valid YAML object'. *)
C5_OneErrorPerMissingKeyOfMapping ==
    Called =>
        LET f == CurFile
        IN  f.status = "ok" =>
                /\ \A k \in 1..Len(REQUIRED_BLUEPRINT_KEYS) :
                       CountKey(NewErrors, "missing_top_level_key", REQUIRED_BLUEPRINT_KEYS[k]) =
                           IF /\ IsDict(f.tree) /\ Truthy(f.tree)
                              /\ ~In(REQUIRED_BLUEPRINT_KEYS[k], f.tree)
                           THEN 1 ELSE 0
                /\ CountKey(NewErrors, "not_a_yaml_object", <<>>) =
                       IF IsDict(f.tree) /\ Truthy(f.tree) THEN 0 ELSE 1

(* C5's case: a mapping that has blueprint and lacks trigger and action *)
C5_Witness ==
    /\ Called /\ CurFile.status = "ok"
    /\ IsDict(CurFile.tree) /\ In(W_blueprint, CurFile.tree)
    /\ ~In(W_trigger, CurFile.tree) /\ ~In(W_action, CurFile.tree)
    /\ CountKey(NewErrors, "missing_top_level_key", W_trigger) = 1
    /\ CountKey(NewErrors, "missing_top_level_key", W_action) = 1
    /\ CountKey(NewErrors, "missing_top_level_key", W_blueprint) = 0

(* C6 as stated: a document whose root is a list yields exactly one error,
   'Blueprint must be a valid YAML object', and no other diagnostic. *)
C6_ListRootOneErrorOnly ==
    (Called /\ CurFile.status = "ok" /\ IsList(CurFile.tree)) =>
        /\ Len(NewErrors) = 1
        /\ NewErrors[1].kind = "not_a_yaml_object"
        /\ NewWarnings = <<>>

(* the warnings of the heuristics over the raw text *)
TextWarningKinds == {"tabs", "default_indentation", "unclosed_template", "condition_input"}

(* no line of the text has anything the heuristics over the raw text look for *)
TextQuiet(content) ==
    LET lines == Split(content)
    IN  /\ \A k \in 1..Len(content) : content[k] # TAB
        /\ \A m \in 1..Len(lines) :
               /\ ~Contains(lines[m], T_open)
               /\ ~Contains(lines[m], T_default_colon)
               /\ ~Contains(lines[m], T_cond_input)

(* C6 amended: a document whose root is a list yields exactly one error,
   'Blueprint must be a valid YAML object', and no other error; its only
   further diagnostics are warnings of the heuristics over the raw text (tabs,
   default/choose indentation, unclosed template, condition !input), and
   there is none when the text has nothing those heuristics look for. *)
C6_ListRootOneErrorTextWarnings ==
    Called =>
        LET f == CurFile
        IN  (f.status = "ok" /\ IsList(f.tree)) =>
                /\ Len(NewErrors) = 1
                /\ NewErrors[1].kind = "not_a_yaml_object"
                /\ \A i \in 1..Len(NewWarnings) : NewWarnings[i].kind \in TextWarningKinds
                /\ TextQuiet(f.content) => NewWarnings = <<>>

(* C6's case: a list root, validated to the end, with its one error and a
   warning from the raw text *)
C6_Witness ==
    /\ Called /\ CurFile.status = "ok" /\ IsList(CurFile.tree)
    /\ pc # "raised"
    /\ Len(NewErrors) = 1
    /\ NewWarnings # <<>>

(* C7 as stated: after a second run of validate_all on the same documents the
   error list and the warning list equal those after the first run, and the
   verdict is the same. *)
C7_SecondRunSameLists ==
    (mpc = "api" /\ runs >= 2 /\ pc \in {"returned", "raised"}) =>
        /\ errors = prev.errors
        /\ warnings = prev.warnings
        /\ result = prev.result

(* C7 amended: two runs of validate_all on the same documents, each on a
   freshly created validator, end with the same error list and the same
   warning list in the same order and with the same outcome; a run on the
   validator of the run before appends to that run's lists. *)
C7_FreshRunsSameLists ==
    (mpc = "api" /\ runs >= 2 /\ pc \in {"returned", "raised"}) =>
        /\ (fresh /\ prev.fresh) =>
               /\ errors = prev.errors
               /\ warnings = prev.warnings
               /\ result = prev.result
               /\ pc = prev.pc
        /\ ~fresh =>
               /\ Len(errors) >= Len(prev.errors)
               /\ SubSeq(errors, 1, Len(prev.errors)) = prev.errors
               /\ Len(warnings) >= Len(prev.warnings)
               /\ SubSeq(warnings, 1, Len(prev.warnings)) = prev.warnings

(* C7's case: the second of two runs on new validators has returned, with
   errors and warnings *)
C7_Witness ==
    /\ mpc = "api" /\ runs >= 2 /\ pc = "returned"
    /\ fresh /\ prev.fresh
    /\ errors # <<>>
    /\ warnings # <<>>
    /\ errors = prev.errors

(* validate_all returned True *)
ValidationSucceeded == pc = "returned" /\ result = "true"

(* C8: main exits with 0 exactly when every phase asked for succeeded: 'all'
   runs lint, then validation (also after a failed lint) and exits 1 if either
   failed; 'lint' and 'validate' run that phase alone; an unknown verb runs
   neither and exits 1; a help verb runs neither and exits 0. *)
C8_ExitCode ==
    (mpc = "exited") =>
        CASE Command(argv) \in {"help", "-h", "--help"} ->
                 phases = <<>> /\ exit_code = 0
          [] Command(argv) = "all" ->
                 /\ phases = <<"lint", "validate">>
                 /\ (exit_code = 0) <=> (lint = "pass" /\ ValidationSucceeded)
                 /\ exit_code \in {0, 1}
          [] Command(argv) = "lint" ->
                 /\ phases = <<"lint">>
                 /\ (exit_code = 0) <=> (lint = "pass")
                 /\ exit_code \in {0, 1}
          [] Command(argv) = "validate" ->
                 /\ phases = <<"validate">>
                 /\ (exit_code = 0) <=> ValidationSucceeded
                 /\ exit_code \in {0, 1}
          [] OTHER ->
                 phases = <<>> /\ exit_code = 1

(* C8's case: 'all' with a failed lint: validation still ran, and succeeded,
   and main exited with 1 *)
C8_Witness ==
    /\ mpc = "exited"
    /\ Command(argv) = "all"
    /\ lint = "fail"
    /\ phases = <<"lint", "validate">>
    /\ ValidationSucceeded
    /\ exit_code = 1

(* the lines check_common_mistakes was given *)
TextLines == Split(TextOf(text))

TextChecked == mpc = "text" /\ pc \in {"text_done", "raised"}

(* check_common_mistakes returned normally *)
TextReturned == mpc = "text" /\ pc = "text_done"

(* the choose lines of the window the claim describes for the line at index
   i: indices i-1 down to max(0, i-50), both included *)
ClaimedWindow(i) ==
    { j \in Max(0, i - LOOKBACK)..(i - 1) : IsChooseLine(TextLines[j + 1]) }

ClaimedNearest(i) == CHOOSE j \in ClaimedWindow(i) : \A k \in ClaimedWindow(i) : k <= j

(* C9: for every line at index i whose trimmed content starts with
   'default:', with the nearest choose line among the lines i-1 down to
   max(0, i-50), the first line of the file included: exactly one indentation
   warning with the line's 1-based number if the indentation of the default
   line differs from the expected one (the choose line's, plus 2 unless it
   starts with '-'), none if it does not differ, and none if there is no
   choose line in that window. *)
C9_DefaultChecksNearestChooseInWindow ==
    TextReturned =>
        \A i \in 0..(Len(TextLines) - 1) :
            StartsWith(Strip(TextLines[i + 1]), T_default_colon) =>
                CountLine(warnings, "default_indentation", i + 1) =
                    IF ClaimedWindow(i) = {} THEN 0
                    ELSE IF IndentOf(TextLines[i + 1]) #
                               (IF StartsWith(Strip(TextLines[ClaimedNearest(i) + 1]), <<"-">>)
                                THEN IndentOf(TextLines[ClaimedNearest(i) + 1])
                                ELSE IndentOf(TextLines[ClaimedNearest(i) + 1]) + 2)
                         THEN 1 ELSE 0

(* what the code does for C9: the window is i-1 down to max(0, i-50) + 1, so
   the line at max(0, i-50), and with it the first line of the file, is never
   looked at *)
C9_DefaultChecksNearestChooseInScanRange ==
    TextChecked =>
        \A i \in 0..(Len(TextLines) - 1) :
            StartsWith(Strip(TextLines[i + 1]), T_default_colon) =>
                LET window == { j \in (Max(0, i - LOOKBACK) + 1)..(i - 1) :
                                  IsChooseLine(TextLines[j + 1]) }
                    nearest == CHOOSE j \in window : \A k \in window : k <= j
                IN  CountLine(warnings, "default_indentation", i + 1) =
                        IF window = {} THEN 0
                        ELSE IF IndentOf(TextLines[i + 1]) #
                                   (IF StartsWith(Strip(TextLines[nearest + 1]), <<"-">>)
                                    THEN IndentOf(TextLines[nearest + 1])
                                    ELSE IndentOf(TextLines[nearest + 1]) + 2)
                             THEN 1 ELSE 0

(* the line has a '{{' with no '}}' after it *)
HasUnmatchedOpen(line) ==
    \E p \in 1..Len(line) :
        /\ OccursAt(line, T_open, p)
        /\ ~\E q \in (p + 2)..Len(line) : OccursAt(line, T_close, q)

(* C10: for every line, exactly one 'Possible unclosed template expression'
   warning with the line's 1-based number if the line has a '{{' with no '}}'
   after it on the line and its trimmed form does not end with one of
   > | >- |- >+ |+, and none otherwise. *)
C10_UnclosedTemplateIffUnmatchedOpen ==
    TextReturned =>
        \A i \in 0..(Len(TextLines) - 1) :
            CountLine(warnings, "unclosed_template", i + 1) =
                IF /\ HasUnmatchedOpen(TextLines[i + 1])
                   /\ ~\E k \in 1..Len(BLOCK_SUFFIXES) :
                          EndsWith(Strip(TextLines[i + 1]), BLOCK_SUFFIXES[k])
                THEN 1 ELSE 0

(* what the code does for C10: the warning is appended when the line has a
   '{{' and no '}}' anywhere, before or after it *)
C10_UnclosedTemplateIffNoCloseAnywhere ==
    TextChecked =>
        \A i \in 0..(Len(TextLines) - 1) :
            CountLine(warnings, "unclosed_template", i + 1) =
                IF /\ \E p \in 1..Len(TextLines[i + 1]) : OccursAt(TextLines[i + 1], T_open, p)
                   /\ ~\E q \in 1..Len(TextLines[i + 1]) : OccursAt(TextLines[i + 1], T_close, q)
                   /\ ~\E k \in 1..Len(BLOCK_SUFFIXES) :
                          EndsWith(Strip(TextLines[i + 1]), BLOCK_SUFFIXES[k])
                THEN 1 ELSE 0

=============================================================================
